---------------------------- MODULE Spec2Model ----------------------------
(***************************************************************************)
(* Model of the security mediation core of the LDAP analytics dashboard:   *)
(*   - rh_sso_auth.py   federated (OIDC) authentication                     *)
(*   - auth.py          local authentication                                *)
(*   - data_security.py access policy engine                                *)
(*   - audit_logger.py  audit sink                                          *)
(*   - secure_dashboard.py / sso_dashboard.py  the mediating pages          *)
(*                                                                         *)
(* Python strings that the code takes apart (split, index, slice) are      *)
(* sequences of one-character strings; opaque names stay TLA+ strings.     *)
(* st.session_state is a function whose DOMAIN is the set of keys present. *)
(***************************************************************************)
EXTENDS Integers, Sequences, FiniteSets, TLC

VARIABLES
    session_state,      \* st.session_state: key -> value, for the keys present
    now,                \* datetime.utcnow(), in ticks
    issued,             \* number of authorization requests generated so far
    trace,              \* what the last script run observed and did (history)
    audit_log,          \* records handed to the audit logger, oldest first
    attempts,           \* number of login forms submitted so far (history)
    export,             \* outcome of the last create_secure_export call (history)
    cache,              \* entries of st.cache_data for load_secure_data
    df,                 \* dataset handed to the policy engine
    user_role,          \* role argument of the policy engine
    user_context,       \* principal context argument of the policy engine
    out,                \* value returned by the policy engine
    pc,                 \* which policy operation produced out
    data_type,          \* operation category asked of check_data_access_permission
    user_permissions,   \* permission set asked of check_data_access_permission
    granted             \* its answer

vars == <<session_state, now, issued, trace, audit_log, attempts, export, cache,
          df, user_role, user_context, out, pc,
          data_type, user_permissions, granted>>

ssoVars    == <<session_state, now, issued, trace>>
localVars  == <<audit_log, attempts, export, cache>>
policyVars == <<df, user_role, user_context, out, pc>>
permVars   == <<data_type, user_permissions, granted>>

----------------------------------------------------------------------------
(* Bounds of the model *)

MaxFlows == 2          \* authorization requests generated in one behaviour
MaxTime == 2           \* ticks of the clock
MaxExpiresIn == 1      \* largest expires_in the provider answers, in ticks
MaxRows == 3           \* rows of a dataset
MaxAudit == 6          \* audit records kept in one behaviour
MaxAttempts == 2       \* login forms submitted in one behaviour

MaxSink == 2           \* records in the log of the sink called on its own
MaxEmail == 4          \* characters of an e-mail value handed to mask_email
MaxPhone == 2          \* characters written before the body of a phone value
MaxId == 5             \* characters of an employee identifier
MaxMaskRows == 2       \* rows of a dataset with contact columns

None == <<"None">>     \* Python's None: a value no string equals

----------------------------------------------------------------------------
(* Python helpers *)

\* key in st.session_state
Has(ss, k) == k \in DOMAIN ss

\* st.session_state.get(k)
Get(ss, k) == IF k \in DOMAIN ss THEN ss[k] ELSE None

\* st.session_state[k] = v
Put(ss, k, v) == [x \in DOMAIN ss \cup {k} |-> IF x = k THEN v ELSE ss[x]]

\* del st.session_state[k], for each k of ks that is present
Del(ss, ks) == [x \in DOMAIN ss \ ks |-> ss[x]]

\* the characters used to spell the number of a flow
Chr == <<"1", "2", "3", "4", "5", "6", "7", "8", "9">>

----------------------------------------------------------------------------
(* rh_sso_auth.py: federated authentication *)

\* secrets.token_urlsafe(32): a fresh string per authorization request
StateTok(n) == <<"s", Chr[n]>>
NonceTok(n) == <<"n", Chr[n]>>
VerifierTok(n) == <<"v", Chr[n]>>

\* a state or nonce this application never generated
ForgedState == <<"s", "x">>
ForgedNonce == <<"n", "x">>

OAuthKeys == {"oauth_state", "oauth_nonce", "oauth_code_verifier"}

\* The query parameters of a script run.  st.query_params[key] is a string;
\* the legacy query API answered a list of strings.  handle_callback indexes
\* the value with [0] either way, so both shapes are kept ("str", "list").
CallbackStates == {StateTok(n) : n \in 1..MaxFlows} \cup {ForgedState}
Queries ==
    {[kind |-> k, shape |-> "str", state |-> None] : k \in {"none", "error"}}
    \cup {[kind |-> "code", shape |-> sh, state |-> st] :
             sh \in {"list", "str"}, st \in CallbackStates}

\* query_params['state'][0]
Index0(q) == IF q.shape = "list" THEN q.state ELSE SubSeq(q.state, 1, 1)

ProviderRoleNames ==
    {"ldap-analytics-admin", "ldap-analytics-manager", "ldap-analytics-auditor"}

\* What the identity provider answers during one script run: the token
\* endpoint, the user-info endpoint, the claims of the ID token, and the
\* refresh grant.
IdNonces == {NonceTok(n) : n \in 1..MaxFlows} \cup {ForgedNonce}
ProviderRoleSets == {{}, {"ldap-analytics-admin"}}
ProviderGroupSets == {{}, {"ldap-analytics-manager", "ldap-analytics-auditor"}}
GoodAnswers ==
    [token : {"ok"}, userinfo : {"ok"}, id_nonce : IdNonces,
     roles : ProviderRoleSets, groups : ProviderGroupSets,
     expires_in : 1..MaxExpiresIn, refresh : {"ok"}]
BadAnswers ==
    [token : {"fail", "no_id_token"}, userinfo : {"ok"},
     id_nonce : {NonceTok(1)}, roles : {{}}, groups : {{}},
     expires_in : {1}, refresh : {"fail"}]
    \cup
    [token : {"ok"}, userinfo : {"fail"},
     id_nonce : {NonceTok(1)}, roles : {{}}, groups : {{}},
     expires_in : {1}, refresh : {"fail"}]
    \cup
    [token : {"ok"}, userinfo : {"ok"},
     id_nonce : {<<"undecodable">>}, roles : {{}}, groups : {{}},
     expires_in : {1}, refresh : {"fail"}]
ProviderAnswers == GoodAnswers \cup BadAnswers

\* get_authorization_url that keeps a pending flow when there is one
get_authorization_url_KeepPending(ss, n) ==
    IF Has(ss, "oauth_state") THEN ss
    ELSE Put(Put(Put(ss, "oauth_state", StateTok(n)),
                 "oauth_nonce", NonceTok(n)),
             "oauth_code_verifier", VerifierTok(n))

get_authorization_url(ss, n) ==
    Put(Put(Put(ss, "oauth_state", StateTok(n)),
            "oauth_nonce", NonceTok(n)),
        "oauth_code_verifier", VerifierTok(n))

\* None, or the token response
exchange_code_for_tokens(ss, state, a) ==
    IF state # Get(ss, "oauth_state") THEN None
    ELSE IF a.token = "fail" THEN None
    ELSE <<"tokens">>

get_user_info(a) == IF a.userinfo = "ok" THEN <<"user_info">> ELSE None

\* verify_jwt_token without the comparison of the nonce
verify_jwt_token_NoNonce(ss, a) ==
    IF a.id_nonce = <<"undecodable">> THEN None ELSE <<"claims">>

\* None, or the decoded claims
verify_jwt_token(ss, a) ==
    IF a.id_nonce = <<"undecodable">> THEN None
    ELSE IF a.id_nonce # Get(ss, "oauth_nonce") THEN None
    ELSE <<"claims">>

\* map_user_roles that looks for the manager name before the admin name
map_user_roles_ManagerFirst(groups, roles) ==
    IF "ldap-analytics-manager" \in roles \/ "ldap-analytics-manager" \in groups
    THEN "manager"
    ELSE IF "ldap-analytics-admin" \in roles \/ "ldap-analytics-admin" \in groups
    THEN "admin"
    ELSE IF "ldap-analytics-auditor" \in roles \/ "ldap-analytics-auditor" \in groups
    THEN "auditor"
    ELSE "viewer"

map_user_roles(groups, roles) ==
    IF "ldap-analytics-admin" \in roles \/ "ldap-analytics-admin" \in groups
    THEN "admin"
    ELSE IF "ldap-analytics-manager" \in roles \/ "ldap-analytics-manager" \in groups
    THEN "manager"
    ELSE IF "ldap-analytics-auditor" \in roles \/ "ldap-analytics-auditor" \in groups
    THEN "auditor"
    ELSE "viewer"

permissions_map ==
    [admin   |-> {"view_all", "export_data", "manage_users", "view_audit"},
     manager |-> {"view_team", "export_data", "view_reports"},
     auditor |-> {"view_audit", "view_reports"},
     viewer  |-> {"view_team", "view_reports"}]

\* expires_at is a datetime object here; is_authenticated writes an ISO string
create_user_session(a, t) ==
    LET role == map_user_roles(a.groups, a.roles) IN
    [username |-> "sso-user",
     role |-> role,
     permissions |-> permissions_map[role],
     groups |-> a.groups,
     access_token |-> "access-0",
     refresh_token |-> "refresh-0",
     expires_at |-> [kind |-> "datetime", t |-> t + a.expires_in]]

\* The result of handle_callback: whether it returns a session, that
\* session, the session state it leaves, whether it ended by an exception
\* (tokens['id_token'] missing), and the step it ended at.
handle_callback(ss, q, a, t) ==
    IF q.kind = "code" THEN
        LET state == Index0(q)
            tokens == exchange_code_for_tokens(ss, state, a)
            user_info == get_user_info(a)
            claims == verify_jwt_token(ss, a)
        IN  IF tokens = None
            THEN [returned |-> FALSE, user |-> None, ss |-> ss,
                  raised |-> FALSE, at |-> "exchange"]
            ELSE IF user_info = None
            THEN [returned |-> FALSE, user |-> None, ss |-> ss,
                  raised |-> FALSE, at |-> "user_info"]
            ELSE IF a.token = "no_id_token"
            THEN [returned |-> FALSE, user |-> None, ss |-> ss,
                  raised |-> TRUE, at |-> "id_token"]
            ELSE IF claims = None
            THEN [returned |-> FALSE, user |-> None, ss |-> ss,
                  raised |-> FALSE, at |-> "verify"]
            ELSE [returned |-> TRUE, user |-> create_user_session(a, t),
                  ss |-> Del(ss, OAuthKeys),
                  raised |-> FALSE, at |-> "session"]
    ELSE [returned |-> FALSE, user |-> None, ss |-> ss,
          raised |-> FALSE, at |-> "no_callback"]

\* None, or the new tokens
refresh_access_token(a) == IF a.refresh = "ok" THEN <<"new_tokens">> ELSE None

\* RedHatSSOAuth.logout
sso_logout(ss) == Del(ss, {"sso_user"})

\* The result of is_authenticated: what it returns ("True", "False", or
\* "TypeError" when datetime.fromisoformat is handed a datetime object), the
\* session state it leaves, and the number of refresh requests it made.
is_authenticated(ss, a, t) ==
    IF Has(ss, "sso_user") THEN
        LET user == ss["sso_user"] IN
        IF user.expires_at.kind # "iso"
        THEN [ret |-> "TypeError", ss |-> ss, refreshes |-> 0]
        ELSE IF t < user.expires_at.t
        THEN [ret |-> "True", ss |-> ss, refreshes |-> 0]
        ELSE IF refresh_access_token(a) # None
        THEN [ret |-> "True",
              ss |-> Put(ss, "sso_user",
                         [user EXCEPT !.access_token = "access-1",
                                      !.expires_at = [kind |-> "iso",
                                                      t |-> t + a.expires_in]]),
              refreshes |-> 1]
        ELSE [ret |-> "False", ss |-> sso_logout(ss), refreshes |-> 1]
    ELSE [ret |-> "False", ss |-> ss, refreshes |-> 0]

\* the session stored under sso_user, as a set of at most one element
UserOf(ss) == IF Has(ss, "sso_user") THEN {ss["sso_user"]} ELSE {}

NoRun ==
    [op |-> "none", callback |-> FALSE, cb_state |-> None,
     stored_state |-> None, stored_nonce |-> None,
     token_ok |-> FALSE, info_ok |-> FALSE, id_nonce |-> None,
     returned |-> FALSE, raised |-> FALSE, user_before |-> {},
     checked |-> FALSE, expired |-> FALSE, refresh_ok |-> FALSE,
     auth |-> "none", refreshes |-> 0]

\* One script run of the SSO dashboard up to the end of require_sso_auth,
\* with query parameters q and provider answers a.
RequireSsoAuth(q, a) ==
    LET cb == handle_callback(session_state, q, a, now)
        ia == is_authenticated(cb.ss, a, now)
        ran == ~cb.returned /\ ~cb.raised
    IN  /\ session_state' =
              IF cb.returned THEN Put(cb.ss, "sso_user", cb.user)
              ELSE IF cb.raised THEN cb.ss
              ELSE ia.ss
        /\ trace' =
              [op |-> "require_sso_auth",
               callback |-> q.kind = "code",
               cb_state |-> IF q.kind = "code" THEN Index0(q) ELSE None,
               stored_state |-> Get(session_state, "oauth_state"),
               stored_nonce |-> Get(session_state, "oauth_nonce"),
               token_ok |-> a.token # "fail",
               info_ok |-> a.userinfo = "ok",
               id_nonce |-> IF a.token = "ok" THEN a.id_nonce ELSE None,
               returned |-> cb.returned,
               raised |-> cb.raised,
               user_before |-> UserOf(session_state),
               checked |-> ran /\ Has(cb.ss, "sso_user"),
               expired |-> /\ ran
                           /\ Has(cb.ss, "sso_user")
                           /\ now >= cb.ss["sso_user"].expires_at.t,
               refresh_ok |-> a.refresh = "ok",
               auth |-> IF ran THEN ia.ret ELSE "none",
               refreshes |-> IF ran THEN ia.refreshes ELSE 0]
        /\ UNCHANGED <<now, issued>>
        /\ UNCHANGED <<localVars, policyVars, permVars>>

\* The login button of sso_login_ui, shown by a run that found no session.
GetAuthorizationUrl ==
    /\ issued < MaxFlows
    /\ ~Has(session_state, "sso_user")
    /\ issued' = issued + 1
    /\ session_state' = get_authorization_url(session_state, issued + 1)
    /\ trace' = [NoRun EXCEPT !.op = "get_authorization_url"]
    /\ UNCHANGED now
    /\ UNCHANGED <<localVars, policyVars, permVars>>

Tick ==
    /\ now < MaxTime
    /\ now' = now + 1
    /\ UNCHANGED <<session_state, issued, trace>>
    /\ UNCHANGED <<localVars, policyVars, permVars>>

\* pd.DataFrame()
EmptyFrame == [columns |-> {}, rows |-> <<>>]

\* the values of the variables a specification does not use
IdleSSO ==
    /\ session_state = <<>>
    /\ now = 0
    /\ issued = 0
    /\ trace = NoRun

IdleLocal ==
    /\ audit_log = <<>>
    /\ attempts = 0
    /\ export = None
    /\ cache = {}

IdlePolicy ==
    /\ df = EmptyFrame
    /\ user_role = "viewer"
    /\ user_context = [email |-> <<>>]
    /\ out = EmptyFrame
    /\ pc = "idle"

IdlePerm ==
    /\ data_type = "people_data"
    /\ user_permissions = {}
    /\ granted = FALSE

InitSSO ==
    /\ session_state = <<>>
    /\ now = 0
    /\ issued = 0
    /\ trace = NoRun
    /\ IdleLocal /\ IdlePolicy /\ IdlePerm

NextSSO ==
    \/ GetAuthorizationUrl
    \/ \E q \in Queries, a \in ProviderAnswers : RequireSsoAuth(q, a)
    \/ Tick

SpecSSO == InitSSO /\ [][NextSSO]_vars

----------------------------------------------------------------------------
(* data_security.py: the access policy engine *)

\* Python string helpers on sequences of characters
Upper == <<"A", "B", "C", "D", "E", "F", "G", "H", "I", "J", "K", "L", "M", "N", "O", "P", "Q", "R", "S", "T", "U", "V", "W", "X", "Y", "Z">>
LowerOf == <<"a", "b", "c", "d", "e", "f", "g", "h", "i", "j", "k", "l", "m", "n", "o", "p", "q", "r", "s", "t", "u", "v", "w", "x", "y", "z">>
LowerChar(c) ==
    IF \E i \in 1..Len(Upper) : Upper[i] = c
    THEN LowerOf[CHOOSE i \in 1..Len(Upper) : Upper[i] = c]
    ELSE c

\* s.lower()
Lower(s) == [i \in 1..Len(s) |-> LowerChar(s[i])]

\* sub in s
Contains(s, sub) ==
    \E i \in 0..(Len(s) - Len(sub)) : SubSeq(s, i + 1, i + Len(sub)) = sub

\* c * n
Repeat(c, n) == [i \in 1..n |-> c]

\* position of the first '@' of s; 0 when s has none
FirstAt(s) ==
    IF \E i \in 1..Len(s) : s[i] = "@"
    THEN CHOOSE i \in 1..Len(s) : s[i] = "@" /\ \A j \in 1..(i - 1) : s[j] # "@"
    ELSE 0

\* the spelling of each column name
Spell ==
    [uid |-> <<"u", "i", "d">>, manager |-> <<"m", "a", "n", "a", "g", "e", "r">>, department |-> <<"d", "e", "p", "a", "r", "t", "m", "e", "n", "t">>,
     seniority_level |-> <<"s", "e", "n", "i", "o", "r", "i", "t", "y", "_", "l", "e", "v", "e", "l">>, email |-> <<"e", "m", "a", "i", "l">>,
     Department |-> <<"D", "e", "p", "a", "r", "t", "m", "e", "n", "t">>, Team_Size |-> <<"T", "e", "a", "m", "_", "S", "i", "z", "e">>,
     Common_Seniority |-> <<"C", "o", "m", "m", "o", "n", "_", "S", "e", "n", "i", "o", "r", "i", "t", "y">>,
     phone |-> <<"p", "h", "o", "n", "e">>, employee_id |-> <<"e", "m", "p", "l", "o", "y", "e", "e", "_", "i", "d">>,
     employee_type |-> <<"e", "m", "p", "l", "o", "y", "e", "e", "_", "t", "y", "p", "e">>,
     Email |-> <<"E", "m", "a", "i", "l">>, WORK_MAIL |-> <<"W", "O", "R", "K", "_", "M", "A", "I", "L">>,
     Mobile |-> <<"M", "o", "b", "i", "l", "e">>, TELEPHONE |-> <<"T", "E", "L", "E", "P", "H", "O", "N", "E">>,
     home_phone |-> <<"h", "o", "m", "e", "_", "p", "h", "o", "n", "e">>,
     EMPLOYEE_ID |-> <<"E", "M", "P", "L", "O", "Y", "E", "E", "_", "I", "D">>,
     employeeNumber |-> <<"e", "m", "p", "l", "o", "y", "e", "e", "N", "u", "m", "b", "e", "r">>,
     EmployeeNumber |-> <<"E", "m", "p", "l", "o", "y", "e", "e", "N", "u", "m", "b", "e", "r">>,
     workerId |-> <<"w", "o", "r", "k", "e", "r", "I", "d">>, workerid |-> <<"w", "o", "r", "k", "e", "r", "i", "d">>,
     password_hash |-> <<"p", "a", "s", "s", "w", "o", "r", "d", "_", "h", "a", "s", "h">>,
     Session_Token |-> <<"S", "e", "s", "s", "i", "o", "n", "_", "T", "o", "k", "e", "n">>,
     SECRET |-> <<"S", "E", "C", "R", "E", "T">>]

sensitive_fields ==
    [email |-> {<<"e", "m", "a", "i", "l">>, <<"m", "a", "i", "l">>},
     phone |-> {<<"p", "h", "o", "n", "e">>, <<"t", "e", "l", "e", "p", "h", "o", "n", "e">>, <<"m", "o", "b", "i", "l", "e">>},
     employee_id |-> {<<"e", "m", "p", "l", "o", "y", "e", "e", "_", "i", "d">>, <<"e", "m", "p", "l", "o", "y", "e", "e", "N", "u", "m", "b", "e", "r">>, <<"w", "o", "r", "k", "e", "r", "I", "d">>}]

\* any(field in column.lower() for field in self.sensitive_fields[kind])
ColumnIs(column, kind) ==
    \E field \in sensitive_fields[kind] : Contains(Lower(Spell[column]), field)

\* mask_email that shows the first character of a local part of 2 characters
mask_email_FirstShown(email) ==
    IF email = <<>> \/ FirstAt(email) = 0 THEN email
    ELSE LET at == FirstAt(email)
             username == SubSeq(email, 1, at - 1)
             domain == SubSeq(email, at + 1, Len(email))
             masked_username ==
                 IF Len(username) <= 1
                 THEN Repeat("*", Len(username))
                 ELSE IF Len(username) = 2
                 THEN <<username[1], "*">>
                 ELSE <<username[1]>> \o Repeat("*", Len(username) - 2)
                      \o <<username[Len(username)]>>
         IN  masked_username \o <<"@">> \o domain

\* mask_email that masks a local part only when it is shorter than 2
mask_email_ShortKept(email) ==
    IF email = <<>> \/ FirstAt(email) = 0 THEN email
    ELSE LET at == FirstAt(email)
             username == SubSeq(email, 1, at - 1)
             domain == SubSeq(email, at + 1, Len(email))
             masked_username ==
                 IF Len(username) < 2
                 THEN Repeat("*", Len(username))
                 ELSE <<username[1]>> \o Repeat("*", Len(username) - 2)
                      \o <<username[Len(username)]>>
         IN  masked_username \o <<"@">> \o domain

mask_email(email) ==
    IF email = <<>> \/ FirstAt(email) = 0 THEN email
    ELSE LET at == FirstAt(email)
             username == SubSeq(email, 1, at - 1)
             domain == SubSeq(email, at + 1, Len(email))
             masked_username ==
                 IF Len(username) <= 2
                 THEN Repeat("*", Len(username))
                 ELSE <<username[1]>> \o Repeat("*", Len(username) - 2)
                      \o <<username[Len(username)]>>
         IN  masked_username \o <<"@">> \o domain

Digits == {"0", "1", "2", "3", "4", "5", "6", "7", "8", "9"}

\* re.sub(r'\D', '', phone)
OnlyDigits(s) == SelectSeq(s, LAMBDA c : c \in Digits)

\* mask_phone that shows the last digits of a number of any length
mask_phone_AnyLength(phone) ==
    IF phone = <<>> THEN phone
    ELSE LET digits == OnlyDigits(phone) IN
         <<"*", "*", "*", "-", "*", "*", "*", "-">>
         \o SubSeq(digits, IF Len(digits) > 4 THEN Len(digits) - 3 ELSE 1, Len(digits))

mask_phone(phone) ==
    IF phone = <<>> THEN phone
    ELSE LET digits == OnlyDigits(phone) IN
         IF Len(digits) >= 10
         THEN <<"*", "*", "*", "-", "*", "*", "*", "-">> \o SubSeq(digits, Len(digits) - 3, Len(digits))
         ELSE <<"*", "*", "*", "-", "*", "*", "*", "*">>

\* mask_employee_id that shows one leading character only
mask_employee_id_FirstOnly(emp_id) ==
    IF emp_id = <<>> THEN emp_id
    ELSE IF Len(emp_id) <= 3 THEN Repeat("*", Len(emp_id))
    ELSE SubSeq(emp_id, 1, 1) \o Repeat("*", Len(emp_id) - 2)
         \o <<emp_id[Len(emp_id)]>>

mask_employee_id(emp_id) ==
    IF emp_id = <<>> THEN emp_id
    ELSE IF Len(emp_id) <= 3 THEN Repeat("*", Len(emp_id))
    ELSE SubSeq(emp_id, 1, 2) \o Repeat("*", Len(emp_id) - 3)
         \o <<emp_id[Len(emp_id)]>>

\* the value of one cell after the masking of its column for user_role
MaskCell(column, value, role) ==
    IF role \in {"viewer", "auditor"} THEN
        IF ColumnIs(column, "email") THEN mask_email(value)
        ELSE IF ColumnIs(column, "phone") THEN mask_phone(value)
        ELSE IF ColumnIs(column, "employee_id") THEN mask_employee_id(value)
        ELSE value
    ELSE IF role = "manager" THEN
        IF ColumnIs(column, "phone") THEN mask_phone(value) ELSE value
    ELSE value

\* apply_data_masking that masks for every role as it does for a viewer
apply_data_masking_AllRoles(frame, role) ==
    [frame EXCEPT !.rows =
        [i \in 1..Len(frame.rows) |->
            [c \in DOMAIN frame.rows[i] |->
                MaskCell(c, frame.rows[i][c], "viewer")]]]

\* apply_data_masking that masks the e-mail columns for a manager as well
apply_data_masking_ManagerEmail(frame, role) ==
    IF role = "admin" THEN frame
    ELSE [frame EXCEPT !.rows =
            [i \in 1..Len(frame.rows) |->
                [c \in DOMAIN frame.rows[i] |->
                    IF role = "manager" /\ ColumnIs(c, "email")
                    THEN mask_email(frame.rows[i][c])
                    ELSE MaskCell(c, frame.rows[i][c], role)]]]

apply_data_masking(frame, role) ==
    IF role = "admin" THEN frame
    ELSE [frame EXCEPT !.rows =
            [i \in 1..Len(frame.rows) |->
                [c \in DOMAIN frame.rows[i] |->
                    MaskCell(c, frame.rows[i][c], role)]]]

\* user_email.split('@')[0] if '@' in user_email else ''
UserUid(user_email) ==
    IF FirstAt(user_email) = 0 THEN <<>>
    ELSE SubSeq(user_email, 1, FirstAt(user_email) - 1)

\* filtered_df[filtered_df['manager'] == user_uid]['uid'].tolist()
direct_reports(rows, user_uid) ==
    {rows[i].uid : i \in {j \in 1..Len(rows) : rows[j].manager = user_uid}}

\* the team filter with the closure taken over every level below the manager
team_rows_Deep(rows, user_uid) ==
    LET Reach[k \in 0..Len(rows)] ==
            IF k = 0 THEN {user_uid}
            ELSE Reach[k - 1] \cup
                 {rows[i].uid : i \in {j \in 1..Len(rows) :
                                          rows[j].manager \in Reach[k - 1]}}
    IN  SelectSeq(rows, LAMBDA r : r.uid = user_uid
                                   \/ r.manager \in Reach[Len(rows)])

\* the rows kept for a manager: team_filter, then the indirect reports
team_rows(rows, user_uid) ==
    LET reports == direct_reports(rows, user_uid) IN
    SelectSeq(rows, LAMBDA r :
        \/ r.manager = user_uid
        \/ r.uid = user_uid
        \/ (reports # {} /\ r.manager \in reports))

\* groupby('department') sorts the groups by key; Series.mode() sorts the
\* modes, so iloc[0] is the least of the most frequent values.
DepartmentOrder == <<"Engineering", "Operations">>
SeniorityOrder == <<"Junior", "Senior">>

CountOf(rows, dept, level) ==
    Cardinality({i \in 1..Len(rows) :
        rows[i].department = dept /\ rows[i].seniority_level = level})

TeamSize(rows, dept) ==
    Cardinality({i \in 1..Len(rows) : rows[i].department = dept})

ModeOf(rows, dept) ==
    LET best == CHOOSE k \in 1..Len(SeniorityOrder) :
            /\ \A j \in 1..Len(SeniorityOrder) :
                  CountOf(rows, dept, SeniorityOrder[j])
                      <= CountOf(rows, dept, SeniorityOrder[k])
            /\ \A j \in 1..(k - 1) :
                  CountOf(rows, dept, SeniorityOrder[j])
                      < CountOf(rows, dept, SeniorityOrder[k])
    IN  SeniorityOrder[best]

AggColumns == {"Department", "Team_Size", "Common_Seniority"}

dept_stats(rows) ==
    LET present == SelectSeq(DepartmentOrder, LAMBDA d : TeamSize(rows, d) > 0)
    IN  [columns |-> AggColumns,
         rows |-> [i \in 1..Len(present) |->
                     [Department |-> present[i],
                      Team_Size |-> TeamSize(rows, present[i]),
                      Common_Seniority |-> ModeOf(rows, present[i])]]]

\* filter_data_by_access_level whose viewer branch is never taken
filter_data_by_access_level_NoAggregate(frame, role, context) ==
    IF role = "admin" THEN frame
    ELSE IF role = "manager" THEN
        IF "manager" \in frame.columns
        THEN [frame EXCEPT !.rows = team_rows(frame.rows, UserUid(context.email))]
        ELSE frame
    ELSE frame

filter_data_by_access_level(frame, role, context) ==
    IF role = "admin" THEN frame
    ELSE IF role = "manager" THEN
        IF "manager" \in frame.columns
        THEN [frame EXCEPT !.rows = team_rows(frame.rows, UserUid(context.email))]
        ELSE frame
    ELSE IF role = "viewer" THEN
        IF Len(frame.rows) > 0 /\ "department" \in frame.columns
        THEN dept_stats(frame.rows)
        ELSE frame
    ELSE frame

\* sanitize_export_data: the internal columns are dropped, the role's mask is
\* applied, and a <<"c", "s", "v">> export carries the provenance attributes
internal_fields == {<<"p", "a", "s", "s", "w", "o", "r", "d">>, <<"h", "a", "s", "h">>, <<"s", "e", "s", "s", "i", "o", "n">>, <<"t", "o", "k", "e", "n">>, <<"s", "e", "c", "r", "e", "t">>}

sanitize_export_data(frame, export_format, role) ==
    LET columns_to_remove ==
            {c \in frame.columns :
                \E field \in internal_fields : Contains(Lower(Spell[c]), field)}
        kept == [columns |-> frame.columns \ columns_to_remove,
                 rows |-> [i \in 1..Len(frame.rows) |->
                             [c \in DOMAIN frame.rows[i] \ columns_to_remove |->
                                 frame.rows[i][c]]]]
        masked == apply_data_masking(kept, role)
    IN  [columns |-> masked.columns,
         rows |-> masked.rows,
         attrs |-> IF Lower(export_format) = <<"c", "s", "v">>
                   THEN {[exported_by |-> role,
                          data_classification |-> "CONFIDENTIAL - Red Hat Internal"]}
                   ELSE {}]

permission_map ==
    [people_data |-> <<"view_all", "view_team">>,
     org_chart |-> <<"view_all", "view_team", "view_reports">>,
     analytics |-> <<"view_all", "view_reports">>,
     export |-> <<"export_data">>,
     audit_logs |-> <<"view_audit", "admin">>]

\* check_data_access_permission that asks for every required permission
check_data_access_permission_All(type, role, permissions) ==
    LET required_permissions ==
            IF type \in DOMAIN permission_map
            THEN permission_map[type] ELSE <<"view_all">>
    IN  \A i \in 1..Len(required_permissions) :
            required_permissions[i] \in permissions

check_data_access_permission(type, role, permissions) ==
    LET required_permissions ==
            IF type \in DOMAIN permission_map
            THEN permission_map[type] ELSE <<"view_all">>
    IN  \E i \in 1..Len(required_permissions) :
            required_permissions[i] \in permissions

\* The datasets handed to the engine.  A collector answers pd.DataFrame()
\* (EmptyFrame: no rows, no columns) when it finds nobody, and otherwise one row per
\* person with every column of the normalized schema.
PeopleColumns == {"uid", "manager", "department", "seniority_level", "email"}
Roles == {"admin", "manager", "viewer", "auditor"}

Mia == <<"m", "i", "a">>
Al == <<"a", "l">>
Bo == <<"b", "o">>
Cyd == <<"c", "y", "d">>
Uids == {Mia, Al, Bo, Cyd}
EmailOf(uid) == uid \o <<"@", "x">>

SeqsUpTo(set, n) == UNION {[1..k -> set] : k \in 0..n}
FramesOf(rowset) ==
    {EmptyFrame} \cup
    {[columns |-> PeopleColumns, rows |-> r] : r \in SeqsUpTo(rowset, MaxRows) \ {<<>>}}

\* rows that differ in department, seniority and contact value
PolicyRows ==
    {[uid |-> u, manager |-> Mia, department |-> d, seniority_level |-> l,
      email |-> EmailOf(u)] :
        u \in {Al, Cyd}, d \in {"Engineering", "Operations"},
        l \in {"Junior", "Senior"}}

\* rows that differ in their place in the reporting structure
TeamRows ==
    {[uid |-> u, manager |-> m, department |-> "Engineering",
      seniority_level |-> "Senior", email |-> EmailOf(u)] :
        u \in Uids, m \in {Mia, Al, Bo}}

\* the principal contexts: an e-mail address, or an identifier without '@'
Contexts == {[email |-> EmailOf(Mia)], [email |-> Mia]}

\* data_security.filter_data_by_access_level(people_df, user_role, user_context)
FilterData ==
    /\ pc = "input"
    /\ out' = filter_data_by_access_level(df, user_role, user_context)
    /\ pc' = "filtered"
    /\ UNCHANGED <<df, user_role, user_context>>
    /\ UNCHANGED <<ssoVars, localVars, permVars>>

\* data_security.apply_data_masking(people_df, user_role)
MaskData ==
    /\ pc = "input"
    /\ out' = apply_data_masking(df, user_role)
    /\ pc' = "masked"
    /\ UNCHANGED <<df, user_role, user_context>>
    /\ UNCHANGED <<ssoVars, localVars, permVars>>

\* the two calls of load_secure_data: the filter, then the mask
ApplyPolicy ==
    /\ pc = "input"
    /\ out' = apply_data_masking(
                  filter_data_by_access_level(df, user_role, user_context),
                  user_role)
    /\ pc' = "applied"
    /\ UNCHANGED <<df, user_role, user_context>>
    /\ UNCHANGED <<ssoVars, localVars, permVars>>

NextPolicy == FilterData \/ MaskData \/ ApplyPolicy

InitPolicy ==
    /\ df \in FramesOf(PolicyRows)
    /\ user_role \in Roles
    /\ user_context \in {[email |-> EmailOf(Mia)]}
    /\ out = EmptyFrame
    /\ pc = "input"
    /\ IdleSSO /\ IdleLocal /\ IdlePerm

SpecPolicy == InitPolicy /\ [][NextPolicy]_vars

InitTeam ==
    /\ df \in FramesOf(TeamRows)
    /\ user_role = "manager"
    /\ user_context \in Contexts
    /\ out = EmptyFrame
    /\ pc = "input"
    /\ IdleSSO /\ IdleLocal /\ IdlePerm

NextTeam == FilterData

SpecTeam == InitTeam /\ [][NextTeam]_vars

\* the categories and permissions asked of check_data_access_permission
DataTypes ==
    {"people_data", "org_chart", "analytics", "export", "audit_logs", "settings"}
Permissions ==
    {"view_all", "view_team", "view_reports", "export_data", "view_audit",
     "manage_users", "admin"}

CheckPermission ==
    /\ pc = "input"
    /\ granted' = check_data_access_permission(data_type, user_role, user_permissions)
    /\ pc' = "checked"
    /\ UNCHANGED <<data_type, user_permissions>>
    /\ UNCHANGED <<df, user_role, user_context, out>>
    /\ UNCHANGED <<ssoVars, localVars>>

InitPerm ==
    /\ data_type \in DataTypes
    /\ user_permissions \in SUBSET Permissions
    /\ granted = FALSE
    /\ df = EmptyFrame
    /\ user_role = "viewer"
    /\ user_context = [email |-> <<>>]
    /\ out = EmptyFrame
    /\ pc = "input"
    /\ IdleSSO /\ IdleLocal

NextPerm == CheckPermission

SpecPerm == InitPerm /\ [][NextPerm]_vars

----------------------------------------------------------------------------
(* audit_logger.py: the audit sink *)

\* the principal of a record is read from st.session_state['user']
get_user_context(ss) ==
    [user_email |-> IF Has(ss, "user") /\ "email" \in DOMAIN ss["user"]
                    THEN ss["user"].email ELSE "anonymous",
     user_role |-> IF Has(ss, "user") /\ "role" \in DOMAIN ss["user"]
                   THEN ss["user"].role ELSE "none"]

\* logging.FileHandler.emit: the record is appended to logs/audit.log; when the
\* write fails, Handler.handleError swallows the exception and the record is lost
emit(log, record, writable) == IF writable THEN Append(log, record) ELSE log

\* the severity is the caller's level argument, whatever the event type
log_event(log, ss, event_type, details, level) ==
    emit(log,
         [event_type |-> event_type,
          user_context |-> get_user_context(ss),
          details |-> details,
          severity |-> level],
         TRUE)

\* defined by the logger; neither dashboard nor auth.py calls it
log_login_attempt(log, ss, email, success) ==
    log_event(log, ss, "LOGIN_ATTEMPT", [email |-> email, success |-> success],
              IF ~success THEN "WARNING" ELSE "INFO")

log_data_access(log, ss, type, filters) ==
    log_event(log, ss, "DATA_ACCESS",
              [data_type |-> type, filters |-> filters, action |-> "view"], "INFO")

log_data_export(log, ss, type, record_count, export_format) ==
    log_event(log, ss, "DATA_EXPORT",
              [data_type |-> type, record_count |-> record_count,
               export_format |-> export_format], "WARNING")

log_session_activity(log, ss, activity) ==
    log_event(log, ss, "SESSION_ACTIVITY", [activity |-> activity], "INFO")

log_security_event(log, ss, event_description, severity) ==
    log_event(log, ss, "SECURITY_EVENT",
              [description |-> event_description,
               requires_investigation |-> severity \in {"ERROR", "CRITICAL"}],
              severity)

----------------------------------------------------------------------------
(* auth.py: local authentication.  One tick of the clock is 30 minutes. *)

authorized_users ==
    ("crizzo@redhat.com" :>
        [name |-> "Christine Rizzo", role |-> "admin",
         permissions |-> {"view_all", "export_data", "manage_users"}])
    @@
    ("demo@redhat.com" :>
        [name |-> "Demo User", role |-> "viewer",
         permissions |-> {"view_team", "view_reports"}])

demo_passwords ==
    ("crizzo@redhat.com" :> "admin123") @@ ("demo@redhat.com" :> "demo123")

check_password(email, password) ==
    /\ email \in DOMAIN authorized_users
    /\ email \in DOMAIN demo_passwords
    /\ demo_passwords[email] = password

SessionTimeout == 2    \* SESSION_TIMEOUT_MINUTES, 60 minutes, in ticks

create_session_token(user_email, t) ==
    [email |-> user_email, exp |-> t + SessionTimeout, iat |-> t,
     signature |-> "secret_key"]

\* verify_session_token whose jwt.decode does not look at the exp claim
verify_session_token_NoExpiry(token, t) ==
    IF token.signature # "secret_key" THEN {}
    ELSE IF token.email \in DOMAIN authorized_users
    THEN {authorized_users[token.email]}
    ELSE {}

\* the set holding the user of a token that is signed with the secret key,
\* not expired and of a known user; the empty set for None.  jwt.decode
\* raises InvalidSignatureError for another signature and ExpiredSignatureError
\* once exp <= now; both are caught.
verify_session_token(token, t) ==
    IF token.signature # "secret_key" THEN {}
    ELSE IF token.exp <= t THEN {}
    ELSE IF token.email \in DOMAIN authorized_users
    THEN {authorized_users[token.email]}
    ELSE {}

\* logout that forgets the token and keeps the user entry
auth_logout_KeepUser(ss) == Del(ss, {"auth_token"})

\* the session state auth.logout leaves before st.rerun()
auth_logout(ss) == Del(ss, {"auth_token", "user"})

\* the submitted login form
login_form(ss, email, password, t) ==
    IF check_password(email, password)
    THEN Put(Put(ss, "auth_token", create_session_token(email, t)),
             "user", authorized_users[email])
    ELSE ss

\* DashboardAuth.is_authenticated: the answer and the session state it leaves;
\* a verified user is written back to the session, a refused token ends in logout
auth_is_authenticated(ss, t) ==
    IF ~Has(ss, "auth_token") THEN [ret |-> FALSE, ss |-> ss]
    ELSE IF verify_session_token(ss["auth_token"], t) = {}
    THEN [ret |-> FALSE, ss |-> auth_logout(ss)]
    ELSE [ret |-> TRUE,
          ss |-> Put(ss, "user",
                     CHOOSE u \in verify_session_token(ss["auth_token"], t) : TRUE)]

check_permission(user, required_permission) ==
    "permissions" \in DOMAIN user /\ required_permission \in user.permissions

\* the outcome of require_permission for the session the check left
RequirePermissionOutcome(ia, permission) ==
    [ss |-> ia.ss,
     outcome |-> IF ~ia.ret THEN "login_form"
                 ELSE IF ~check_permission(ia.ss["user"], permission) THEN "denied"
                 ELSE "granted"]

\* require_permission that ends the session of a principal it denies
require_permission_Logout(ss, permission, t) ==
    IF RequirePermissionOutcome(auth_is_authenticated(ss, t), permission).outcome = "denied"
    THEN [ss |-> auth_logout(ss), outcome |-> "denied"]
    ELSE RequirePermissionOutcome(auth_is_authenticated(ss, t), permission)

\* DashboardAuth.require_permission
require_permission(ss, permission, t) ==
    RequirePermissionOutcome(auth_is_authenticated(ss, t), permission)

\* a login form that tells an unknown identifier from a wrong secret
login_message_Enumerating(email, password) ==
    IF check_password(email, password) THEN "Welcome"
    ELSE IF email \in DOMAIN authorized_users THEN "Invalid credentials"
    ELSE "Unknown user"

\* what the form shows after the submit: st.success or st.error
login_message(email, password) ==
    IF check_password(email, password) THEN "Welcome" ELSE "Invalid credentials"

LoginEmails == {"crizzo@redhat.com", "demo@redhat.com", "nobody@redhat.com"}
LoginPasswords == {"admin123", "demo123", "wrong"}

----------------------------------------------------------------------------
(* secure_dashboard.py and sso_dashboard.py: the mediating pages *)

\* collect_sample_data: a fixed, non-empty people dataset
SampleData ==
    [columns |-> PeopleColumns,
     rows |-> <<[uid |-> Al, manager |-> Mia, department |-> "Engineering",
                 seniority_level |-> "Senior", email |-> EmailOf(Al)],
                [uid |-> Cyd, manager |-> Mia, department |-> "Operations",
                 seniority_level |-> "Junior", email |-> EmailOf(Cyd)]>>]

CacheTtl == 1          \* st.cache_data(ttl=1800), 30 minutes, in ticks

CacheHit(c, role, user, t) ==
    \E e \in c : e.role = role /\ e.user = user /\ t < e.loaded_at + CacheTtl

\* load_secure_data behind st.cache_data: the body runs on a miss only
load_secure_data(c, log, ss, role, user, t) ==
    [cache |-> IF CacheHit(c, role, user, t) THEN c
               ELSE {e \in c : ~(e.role = role /\ e.user = user)}
                    \cup {[role |-> role, user |-> user, loaded_at |-> t]},
     log |-> IF CacheHit(c, role, user, t) THEN log
             ELSE log_data_access(log, ss, "people_data", [user_role |-> role]),
     people_df |->
         apply_data_masking(
             filter_data_by_access_level(
                 SampleData, role,
                 [email |-> IF "email" \in DOMAIN user THEN user.email ELSE <<>>]),
             role)]

\* what sanitized_df.to_csv(index=False) holds: the columns and the rows
to_csv(frame) == [columns |-> frame.columns, rows |-> frame.rows]

\* the outcome of a denied export
ExportDenied(log) ==
    [denied |-> TRUE, log |-> log, sanitized |-> {}, download |-> {}]

\* the outcome of an export that was let through: the sanitized frame, the
\* log after the export was recorded, and the download of a <<"c", "s", "v">> export
ExportDone(sanitized_df, export_format, log) ==
    [denied |-> FALSE, log |-> log, sanitized |-> {sanitized_df},
     download |-> IF Lower(export_format) = <<"c", "s", "v">>
                  THEN {to_csv(sanitized_df)} ELSE {}]

\* the record count len(sanitized_df) of the DATA_EXPORT record
ExportLogged(sanitized_df, export_format, ss, log) ==
    log_data_export(log, ss, "people_data", Len(sanitized_df.rows), export_format)

\* create_secure_export that sanitizes and logs without asking for permission
create_secure_export_NoGate(frame, export_format, role, ss, log) ==
    ExportDone(sanitize_export_data(frame, export_format, role), export_format,
               ExportLogged(sanitize_export_data(frame, export_format, role),
                            export_format, ss, log))

\* the permissions st.session_state.get('user', {}).get('permissions', [])
SessionPermissions(ss) ==
    IF Has(ss, "user") /\ "permissions" \in DOMAIN ss["user"]
    THEN ss["user"].permissions ELSE {}

\* secure_dashboard.create_secure_export
create_secure_export(frame, export_format, role, ss, log) ==
    IF ~check_data_access_permission("export", role, SessionPermissions(ss))
    THEN ExportDenied(log)
    ELSE ExportDone(sanitize_export_data(frame, export_format, role), export_format,
                    ExportLogged(sanitize_export_data(frame, export_format, role),
                                 export_format, ss, log))

\* sso_dashboard.create_secure_export
sso_create_secure_export(frame, export_format, role, context, ss, log) ==
    IF ~check_data_access_permission("export", role, context.permissions)
    THEN ExportDenied(log)
    ELSE ExportDone(sanitize_export_data(frame, export_format, role), export_format,
                    log_session_activity(
                        ExportLogged(sanitize_export_data(frame, export_format, role),
                                     export_format, ss, log),
                        ss, "data_export"))

\* What one script run of secure_dashboard.main leaves: the session state,
\* the audit log, the cache, the export it made if any, and the page on the
\* screen: the login form, the dashboard, the permission error, or nothing
\* because the run ended in st.rerun().
Screen(ss, log, c, made, page, button) ==
    [ss |-> ss, log |-> log, cache |-> c, export |-> made,
     page |-> page, export_button |-> button]

\* check_session_security: the fingerprint, then the page_access record
check_session_security(ss, log, t) ==
    [ss |-> IF Has(ss, "session_fingerprint") THEN ss
            ELSE Put(ss, "session_fingerprint", [hash |-> t]),
     log |-> log_session_activity(
                 log,
                 IF Has(ss, "session_fingerprint") THEN ss
                 ELSE Put(ss, "session_fingerprint", [hash |-> t]),
                 "page_access")]

\* main from the export section on: the button is on the screen of an admin
\* who sees the charts, and a click on it calls create_secure_export
main_export(ss, loaded, log, click, button, role) ==
    IF button /\ click = "export"
    THEN Screen(ss,
                create_secure_export(loaded.people_df, <<"c", "s", "v">>, role, ss, log).log,
                loaded.cache,
                {create_secure_export(loaded.people_df, <<"c", "s", "v">>, role, ss, log)},
                "dashboard", TRUE)
    ELSE Screen(ss, log, loaded.cache, {}, "dashboard", button)

\* main from the charts on: admins and managers with data see the map
main_charts(ss, loaded, click, role, charts) ==
    main_export(ss, loaded,
                IF charts THEN log_session_activity(loaded.log, ss, "viewed_geomap")
                ELSE loaded.log,
                click, charts /\ role = "admin", role)

\* main after require_auth and check_session_security
main_secured(s, c, t, click, user) ==
    IF click = "logout"
    THEN Screen(auth_logout(s.ss), log_session_activity(s.log, s.ss, "logout"),
                c, {}, "rerun", FALSE)
    ELSE IF ~check_data_access_permission("analytics", user.role, user.permissions)
    THEN Screen(s.ss, s.log, c, {}, "denied", FALSE)
    ELSE IF click = "refresh"
    THEN Screen(s.ss, log_session_activity(s.log, s.ss, "data_refresh"),
                {}, {}, "rerun", FALSE)
    ELSE main_charts(s.ss,
                     load_secure_data(c, s.log, s.ss, user.role, user, t),
                     click, user.role,
                     /\ user.role \in {"admin", "manager"}
                     /\ Len(load_secure_data(c, s.log, s.ss, user.role, user, t)
                                .people_df.rows) > 0)

\* One script run of secure_dashboard.main with the widget that was clicked
main(ss, log, c, t, click) ==
    IF ~Has(ss, "auth_token")
    THEN Screen(ss, log, c, {}, "login", FALSE)
    ELSE IF verify_session_token(ss["auth_token"], t) = {}
    THEN Screen(auth_logout(ss), log, c, {}, "rerun", FALSE)
    ELSE main_secured(
             check_session_security(
                 Put(ss, "user",
                     CHOOSE u \in verify_session_token(ss["auth_token"], t) : TRUE),
                 log, t),
             c, t, click,
             CHOOSE u \in verify_session_token(ss["auth_token"], t) : TRUE)

\* the history kept of one create_secure_export call
ExportRecord(dashboard, permissions, export_format, e, log, ss) ==
    [op |-> "create_secure_export", dashboard |-> dashboard,
     permissions |-> permissions, export_format |-> export_format,
     denied |-> e.denied, sanitized |-> e.sanitized, download |-> e.download,
     log_before |-> log, ss_before |-> ss]

NoPage == [op |-> "none", page |-> "none", export_button |-> FALSE, click |-> "none"]

MainRun(click) ==
    \E r \in {main(session_state, audit_log, cache, now, click)} :
        /\ Len(r.log) <= MaxAudit
        /\ session_state' = r.ss
        /\ audit_log' = r.log
        /\ cache' = r.cache
        /\ export' = IF r.export = {} THEN export
                     ELSE ExportRecord("secure", SessionPermissions(r.ss), <<"c", "s", "v">>,
                                       CHOOSE e \in r.export : TRUE, audit_log,
                                       r.ss)
        /\ trace' = [op |-> "main", page |-> r.page,
                     export_button |-> r.export_button, click |-> click]
        /\ UNCHANGED <<now, issued, attempts>>
        /\ UNCHANGED <<policyVars, permVars>>

\* the page is opened or reloaded
PageRun == MainRun("none")

\* the widgets of the dashboard that the last run put on the screen
LogoutButton == trace.page = "dashboard" /\ MainRun("logout")
RefreshButton == trace.page = "dashboard" /\ MainRun("refresh")
ExportButton == trace.page = "dashboard" /\ trace.export_button /\ MainRun("export")

\* the login form is submitted; it stays on the screen after a failure
LoginSubmit(email, password) ==
    /\ trace.page = "login"
    /\ attempts < MaxAttempts
    /\ attempts' = attempts + 1
    /\ session_state' = login_form(session_state, email, password, now)
    /\ trace' = [op |-> "login_form",
                 page |-> IF check_password(email, password) THEN "rerun" ELSE "login",
                 export_button |-> FALSE, click |-> "login",
                 email |-> email, success |-> check_password(email, password),
                 message |-> login_message(email, password),
                 ss_before |-> session_state,
                 log_before |-> audit_log]
    /\ UNCHANGED <<now, issued, audit_log, export, cache>>
    /\ UNCHANGED <<policyVars, permVars>>

InitLocal ==
    /\ session_state = <<>>
    /\ now = 0
    /\ issued = 0
    /\ trace = NoPage
    /\ IdleLocal /\ IdlePolicy /\ IdlePerm

NextLocal ==
    \/ PageRun
    \/ \E email \in LoginEmails, password \in LoginPasswords :
          LoginSubmit(email, password)
    \/ LogoutButton
    \/ RefreshButton
    \/ ExportButton
    \/ Tick

SpecLocal == InitLocal /\ [][NextLocal]_vars

\* The principals an export is requested for: the local users, and the
\* sessions create_user_session builds for the provider's answers.
LocalSessions ==
    {login_form(<<>>, email, demo_passwords[email], 0) : email \in DOMAIN demo_passwords}
SsoSessions ==
    {("sso_user" :> create_user_session(a, 0)) : a \in GoodAnswers}
ExportFormats == {<<"c", "s", "v">>, <<"C", "S", "V">>, <<"j", "s", "o", "n">>}
ExportFrames ==
    {SampleData} \cup {f \in FramesOf(PolicyRows) : Len(f.rows) <= 1}

\* secure_dashboard.create_secure_export(df, export_format, user_role)
CreateSecureExport(export_format) ==
    /\ pc = "input"
    /\ Has(session_state, "user")
    /\ \E e \in {create_secure_export(df, export_format, user_role,
                                       session_state, audit_log)} :
           /\ audit_log' = e.log
           /\ export' = ExportRecord("secure", SessionPermissions(session_state),
                                     export_format, e, audit_log, session_state)
    /\ pc' = "exported"
    /\ UNCHANGED <<df, user_role, user_context, out>>
    /\ UNCHANGED <<ssoVars, attempts, cache, permVars>>

\* sso_dashboard.create_secure_export(df, export_format, user_role, user)
SsoCreateSecureExport(export_format) ==
    /\ pc = "input"
    /\ Has(session_state, "sso_user")
    /\ \E e \in {sso_create_secure_export(df, export_format, user_role,
                                           session_state["sso_user"],
                                           session_state, audit_log)} :
           /\ audit_log' = e.log
           /\ export' = ExportRecord("sso", session_state["sso_user"].permissions,
                                     export_format, e, audit_log, session_state)
    /\ pc' = "exported"
    /\ UNCHANGED <<df, user_role, user_context, out>>
    /\ UNCHANGED <<ssoVars, attempts, cache, permVars>>

\* the permissions a page may require
RequiredPermissions == {"export_data", "manage_users", "view_audit", "view_team"}

\* auth.require_permission(permission) at the top of a page
RequirePermission(permission) ==
    /\ pc = "input"
    /\ Has(session_state, "auth_token")
    /\ \E r \in {require_permission(session_state, permission, now)} :
           /\ session_state' = r.ss
           /\ trace' = [op |-> "require_permission", permission |-> permission,
                        outcome |-> r.outcome, ss_before |-> session_state]
    /\ pc' = "required"
    /\ UNCHANGED <<now, issued>>
    /\ UNCHANGED <<df, user_role, user_context, out>>
    /\ UNCHANGED <<localVars, permVars>>

InitExport ==
    /\ session_state \in LocalSessions \cup SsoSessions
    /\ df \in ExportFrames
    /\ user_role = IF Has(session_state, "user") THEN session_state["user"].role
                   ELSE session_state["sso_user"].role
    /\ user_context = [email |-> <<>>]
    /\ out = EmptyFrame
    /\ pc = "input"
    /\ now = 0
    /\ issued = 0
    /\ trace = NoRun
    /\ IdleLocal /\ IdlePerm

NextExport ==
    \/ \E export_format \in ExportFormats : CreateSecureExport(export_format)
    \/ \E export_format \in ExportFormats : SsoCreateSecureExport(export_format)
    \/ \E permission \in RequiredPermissions : RequirePermission(permission)

SpecExport == InitExport /\ [][NextExport]_vars

----------------------------------------------------------------------------
(* The audit sink called on its own: every public operation of AuditLogger,
   with the arguments a caller may pass and a log file that takes the write
   or not. *)


SinkLevels == {"INFO", "WARNING"}

\* the arguments of a direct log_event call
SinkCalls ==
    {[event_type |-> "LOGIN_ATTEMPT",
      details |-> [email |-> "nobody@redhat.com", success |-> success],
      level |-> level] : success \in BOOLEAN, level \in SinkLevels}
    \cup
    {[event_type |-> "DATA_EXPORT",
      details |-> [data_type |-> "people_data", record_count |-> 1,
                   export_format |-> <<"c", "s", "v">>],
      level |-> level] : level \in SinkLevels}

\* One call of an operation of the sink.  records is what the operation
\* hands to the file handler, in order; the call returns None in every case.
SinkCall(name, records, writable) ==
    /\ Len(audit_log) < MaxSink
    /\ audit_log' = IF writable THEN audit_log \o records ELSE audit_log
    /\ trace' = [op |-> "audit", call |-> name, writable |-> writable,
                 handed |-> records, raised |-> FALSE]
    /\ UNCHANGED <<session_state, now, issued, attempts, export, cache>>
    /\ UNCHANGED <<policyVars, permVars>>

LogEvent(call, writable) ==
    SinkCall("log_event",
             log_event(<<>>, session_state, call.event_type, call.details, call.level),
             writable)

LogLoginAttempt(email, success, writable) ==
    SinkCall("log_login_attempt",
             log_login_attempt(<<>>, session_state, email, success),
             writable)

LogDataAccess(writable) ==
    SinkCall("log_data_access",
             log_data_access(<<>>, session_state, "people_data", [user_role |-> "viewer"]),
             writable)

LogDataExport(writable) ==
    SinkCall("log_data_export",
             log_data_export(<<>>, session_state, "people_data", 1, <<"c", "s", "v">>),
             writable)

LogSessionActivity(writable) ==
    SinkCall("log_session_activity",
             log_session_activity(<<>>, session_state, "page_access"),
             writable)

LogSecurityEvent(severity, writable) ==
    SinkCall("log_security_event",
             log_security_event(<<>>, session_state, "Data loading error", severity),
             writable)

InitSink ==
    /\ session_state = <<>>
    /\ now = 0
    /\ issued = 0
    /\ trace = NoRun
    /\ IdleLocal /\ IdlePolicy /\ IdlePerm

NextSink ==
    \/ \E call \in SinkCalls, writable \in BOOLEAN : LogEvent(call, writable)
    \/ \E success \in BOOLEAN, writable \in BOOLEAN :
          LogLoginAttempt("nobody@redhat.com", success, writable)
    \/ \E writable \in BOOLEAN : LogDataAccess(writable)
    \/ \E writable \in BOOLEAN : LogDataExport(writable)
    \/ \E writable \in BOOLEAN : LogSessionActivity(writable)
    \/ \E severity \in {"WARNING", "CRITICAL"}, writable \in BOOLEAN :
          LogSecurityEvent(severity, writable)

SpecSink == InitSink /\ [][NextSink]_vars

----------------------------------------------------------------------------
(* verify_session_token on its own: any token a client may present *)

Tokens ==
    [email : LoginEmails, exp : 0..(MaxTime + SessionTimeout), iat : {0},
     signature : {"secret_key", "other_key"}]

VerifySessionToken ==
    /\ trace.op = "none"
    /\ trace' = [op |-> "verify_session_token",
                 user |-> verify_session_token(session_state["auth_token"], now)]
    /\ UNCHANGED <<session_state, now, issued>>
    /\ UNCHANGED <<localVars, policyVars, permVars>>

InitToken ==
    /\ session_state \in {("auth_token" :> token) : token \in Tokens}
    /\ now \in 0..MaxTime
    /\ issued = 0
    /\ trace = NoRun
    /\ IdleLocal /\ IdlePolicy /\ IdlePerm

NextToken == VerifySessionToken

SpecToken == InitToken /\ [][NextToken]_vars

----------------------------------------------------------------------------
(* create_user_session on its own: any roles and groups a provider may claim *)

\* the three names the mapping knows, and a claim named like a permission
ClaimNames == ProviderRoleNames \cup {"export_data"}

CreateUserSession(roles, groups) ==
    /\ trace.op = "none"
    /\ session_state' =
          ("sso_user" :>
              create_user_session(
                  [token |-> "ok", userinfo |-> "ok", id_nonce |-> NonceTok(1),
                   roles |-> roles, groups |-> groups,
                   expires_in |-> 1, refresh |-> "ok"],
                  now))
    /\ trace' = [op |-> "create_user_session", roles |-> roles, groups |-> groups]
    /\ UNCHANGED <<now, issued>>
    /\ UNCHANGED <<localVars, policyVars, permVars>>

InitRoles ==
    /\ session_state = <<>>
    /\ now = 0
    /\ issued = 0
    /\ trace = NoRun
    /\ IdleLocal /\ IdlePolicy /\ IdlePerm

NextRoles ==
    \E roles \in SUBSET ClaimNames, groups \in SUBSET ClaimNames :
        CreateUserSession(roles, groups)

SpecRoles == InitRoles /\ [][NextRoles]_vars

----------------------------------------------------------------------------
(* mask_email on its own: any value of an e-mail column *)

XCom == <<"@", "x", ".", "c", "o", "m">>

\* short strings with any number of '@', and local parts before "@x.com"
Emails ==
    SeqsUpTo({"a", "b", "@"}, MaxEmail)
    \cup {local \o XCom : local \in SeqsUpTo({"a", "b"}, MaxEmail)}

MaskEmail ==
    /\ pc = "input"
    /\ out' = mask_email(user_context.email)
    /\ pc' = "masked_email"
    /\ UNCHANGED <<df, user_role, user_context>>
    /\ UNCHANGED <<ssoVars, localVars, permVars>>

InitMask ==
    /\ user_context \in {[email |-> email] : email \in Emails}
    /\ df = EmptyFrame
    /\ user_role = "viewer"
    /\ out = EmptyFrame
    /\ pc = "input"
    /\ IdleSSO /\ IdleLocal /\ IdlePerm

NextMask == MaskEmail

SpecMask == InitMask /\ [][NextMask]_vars

----------------------------------------------------------------------------
(* mask_phone and mask_employee_id on their own: any value of a column *)

\* the bodies of a phone value: none, 4, 7, 8, 9 and 10 digits with separators
PhoneBodies ==
    {<<>>,
     <<"0", "1", "0", "0">>,
     <<"5", "5", "5", "-", "0", "1", "9", "9">>,
     <<"5", "5", "5", "5", "-", "0", "1", "2", "3">>,
     <<"(", "9", "1", ")", " ", "5", "5", "5", " ", "0", "1", "0", "0">>,
     <<"9", "1", "9", "-", "5", "5", "5", "-", "0", "1", "4", "2">>}

Phones ==
    {head \o body : head \in SeqsUpTo({"7", "+", "x"}, MaxPhone), body \in PhoneBodies}

EmpIds == SeqsUpTo({"E", "7"}, MaxId)

MaskPhone ==
    /\ pc = "input"
    /\ out' = mask_phone(user_context.value)
    /\ pc' = "masked_phone"
    /\ UNCHANGED <<df, user_role, user_context>>
    /\ UNCHANGED <<ssoVars, localVars, permVars>>

MaskEmployeeId ==
    /\ pc = "input"
    /\ out' = mask_employee_id(user_context.value)
    /\ pc' = "masked_id"
    /\ UNCHANGED <<df, user_role, user_context>>
    /\ UNCHANGED <<ssoVars, localVars, permVars>>

InitValue ==
    /\ user_context \in {[value |-> v] : v \in Phones \cup EmpIds}
    /\ df = EmptyFrame
    /\ user_role = "viewer"
    /\ out = EmptyFrame
    /\ pc = "input"
    /\ IdleSSO /\ IdleLocal /\ IdlePerm

NextValue == MaskPhone \/ MaskEmployeeId

SpecValue == InitValue /\ [][NextValue]_vars

----------------------------------------------------------------------------
(* apply_data_masking on datasets with contact columns *)

TenDigits == <<"9", "1", "9", "-", "5", "5", "5", "-", "0", "1", "4", "2">>
SevenDigits == <<"5", "5", "5", "-", "0", "1", "9", "9">>
LongId == <<"E", "7", "7", "E", "7">>
ShortId == <<"E", "7">>

\* columns of the normalized person schema, and an employee identifier
ContactColumns == {"uid", "email", "phone", "employee_id", "employee_type"}

ContactRows ==
    {[uid |-> u, email |-> EmailOf(u), phone |-> p, employee_id |-> e,
      employee_type |-> "Regular"] :
        u \in {Al, Cyd}, p \in {TenDigits, SevenDigits, <<>>}, e \in {LongId, ShortId}}

ContactFrames ==
    {EmptyFrame} \cup
    {[columns |-> ContactColumns, rows |-> r] :
        r \in SeqsUpTo(ContactRows, MaxMaskRows) \ {<<>>}}

InitMasking ==
    /\ df \in ContactFrames
    /\ user_role \in Roles
    /\ user_context \in {[email |-> EmailOf(Mia)]}
    /\ out = EmptyFrame
    /\ pc = "input"
    /\ IdleSSO /\ IdleLocal /\ IdlePerm

NextMasking == MaskData

SpecMasking == InitMasking /\ [][NextMasking]_vars

----------------------------------------------------------------------------
(* apply_data_masking on one column of any name *)

\* column names that hold a keyword of a sensitive category in some letter
\* case, and column names that hold none
NamedColumns ==
    {"email", "Email", "WORK_MAIL", "phone", "Mobile", "TELEPHONE", "home_phone",
     "employee_id", "EMPLOYEE_ID", "employeeNumber", "EmployeeNumber",
     "workerId", "workerid", "uid", "employee_type"}

CellValues == {EmailOf(Cyd), TenDigits, LongId}

InitColumn ==
    /\ df \in {[columns |-> {c}, rows |-> <<[x \in {c} |-> v]>>] :
                 c \in NamedColumns, v \in CellValues}
    /\ user_role \in Roles
    /\ user_context \in {[email |-> EmailOf(Mia)]}
    /\ out = EmptyFrame
    /\ pc = "input"
    /\ IdleSSO /\ IdleLocal /\ IdlePerm

NextColumn == MaskData

SpecColumn == InitColumn /\ [][NextColumn]_vars

----------------------------------------------------------------------------
(* sanitize_export_data on its own: any dataset, role and export format *)

\* the columns of a dataset handed to an export: people columns, with or
\* without columns that name an internal field
ExportColumnSets ==
    {{"uid", "email", "phone"},
     {"uid", "email", "password_hash"},
     {"uid", "employee_id", "Session_Token", "SECRET"},
     {"SECRET"}}

ExportRow(u, cs) ==
    [c \in cs |-> IF c = "uid" THEN u
                  ELSE IF c = "email" THEN EmailOf(u)
                  ELSE IF c = "phone" THEN TenDigits
                  ELSE IF c = "employee_id" THEN LongId
                  ELSE <<"x">>]

SanitizeFrames ==
    {[columns |-> cs, rows |-> [i \in 1..Len(us) |-> ExportRow(us[i], cs)]] :
        cs \in ExportColumnSets, us \in SeqsUpTo({Al, Cyd}, MaxMaskRows)}

\* data_security.sanitize_export_data(df, export_format, user_role)
SanitizeExportData ==
    /\ pc = "input"
    /\ out' = sanitize_export_data(df, user_context.export_format, user_role)
    /\ pc' = "sanitized"
    /\ UNCHANGED <<df, user_role, user_context>>
    /\ UNCHANGED <<ssoVars, localVars, permVars>>

InitSanitize ==
    /\ df \in SanitizeFrames
    /\ user_role \in Roles
    /\ user_context \in {[export_format |-> f] : f \in ExportFormats}
    /\ out = EmptyFrame
    /\ pc = "input"
    /\ IdleSSO /\ IdleLocal /\ IdlePerm

NextSanitize == SanitizeExportData

SpecSanitize == InitSanitize /\ [][NextSanitize]_vars

----------------------------------------------------------------------------
(* One pipeline run of a dashboard: load_secure_data, then the export of its
   result when the export button is on the screen and is clicked *)

\* the two security calls of load_secure_data in the order of the body, each
\* with the dataset it was handed and the dataset it gave back; this variant
\* masks the source first and filters the masked rows
secure_filters_MaskFirst(people_df, role, context) ==
    [filter_input |-> apply_data_masking(people_df, role),
     filter_output |->
         filter_data_by_access_level(apply_data_masking(people_df, role), role, context),
     mask_input |-> people_df,
     mask_output |-> apply_data_masking(people_df, role),
     people_df |->
         filter_data_by_access_level(apply_data_masking(people_df, role), role, context)]

\* people_df = filter_data_by_access_level(people_df, user_role, user_context)
\* people_df = apply_data_masking(people_df, user_role)
secure_filters(people_df, role, context) ==
    [filter_input |-> people_df,
     filter_output |-> filter_data_by_access_level(people_df, role, context),
     mask_input |-> filter_data_by_access_level(people_df, role, context),
     mask_output |->
         apply_data_masking(filter_data_by_access_level(people_df, role, context), role),
     people_df |->
         apply_data_masking(filter_data_by_access_level(people_df, role, context), role)]

PipelineColumns == PeopleColumns \cup {"phone"}

\* people collected with a phone number, some of them outside Mia's team
PipelineRows ==
    {[uid |-> u, manager |-> m, department |-> "Engineering",
      seniority_level |-> "Senior", email |-> EmailOf(u), phone |-> p] :
        u \in {Al, Cyd}, m \in {Mia, Bo}, p \in {TenDigits, SevenDigits}}

PipelineFrames ==
    {EmptyFrame} \cup
    {[columns |-> PipelineColumns, rows |-> r] :
        r \in SeqsUpTo(PipelineRows, MaxMaskRows) \ {<<>>}}

\* the permissions of the principal of either dashboard
PrincipalPermissions(ss) ==
    IF Has(ss, "sso_user") THEN ss["sso_user"].permissions ELSE SessionPermissions(ss)

\* main up to the data: the analytics gate, then a first load_secure_data
LoadSecureData ==
    /\ pc = "input"
    /\ check_data_access_permission("analytics", user_role,
                                    PrincipalPermissions(session_state))
    /\ \E p \in {secure_filters(df, user_role, user_context)} :
           /\ out' = p.people_df
           /\ trace' = [op |-> "load_secure_data",
                        filter_input |-> p.filter_input,
                        filter_output |-> p.filter_output,
                        mask_input |-> p.mask_input,
                        mask_output |-> p.mask_output]
    /\ audit_log' = log_data_access(audit_log, session_state, "people_data",
                                    [user_role |-> user_role])
    /\ pc' = "loaded"
    /\ UNCHANGED <<session_state, now, issued, attempts, export, cache>>
    /\ UNCHANGED <<df, user_role, user_context, permVars>>

\* main after the data: the export button is drawn under the charts of a
\* non-empty people_df for user_role 'admin' only, and a click calls
\* create_secure_export on the loaded people_df
ExportClick ==
    /\ pc = "loaded"
    /\ Len(out.rows) > 0
    /\ user_role = "admin"
    /\ \E e \in {IF Has(session_state, "sso_user")
                 THEN sso_create_secure_export(out, <<"c", "s", "v">>, user_role,
                                               session_state["sso_user"],
                                               session_state, audit_log)
                 ELSE create_secure_export(out, <<"c", "s", "v">>, user_role,
                                           session_state, audit_log)} :
           /\ audit_log' = e.log
           /\ export' = ExportRecord(IF Has(session_state, "sso_user")
                                     THEN "sso" ELSE "secure",
                                     PrincipalPermissions(session_state),
                                     <<"c", "s", "v">>, e, audit_log, session_state)
    /\ pc' = "exported"
    /\ UNCHANGED <<df, user_role, user_context, out>>
    /\ UNCHANGED <<ssoVars, attempts, cache, permVars>>

InitPipeline ==
    /\ session_state \in LocalSessions \cup SsoSessions
    /\ df \in PipelineFrames
    /\ user_role = IF Has(session_state, "user") THEN session_state["user"].role
                   ELSE session_state["sso_user"].role
    /\ user_context = [email |-> EmailOf(Mia)]
    /\ out = EmptyFrame
    /\ pc = "input"
    /\ now = 0
    /\ issued = 0
    /\ trace = NoRun
    /\ IdleLocal /\ IdlePerm

NextPipeline == LoadSecureData \/ ExportClick

SpecPipeline == InitPipeline /\ [][NextPipeline]_vars

----------------------------------------------------------------------------
(* Claims about federated authentication *)

\* the four checks of a callback, read off what the run was given
StateMatched == trace.cb_state = trace.stored_state
NonceMatched == trace.id_nonce = trace.stored_nonce
AllStepsPassed ==
    /\ StateMatched
    /\ trace.token_ok
    /\ trace.info_ok
    /\ NonceMatched

\* C1: a callback returns a session, which require_sso_auth stores as
\* sso_user, only if in that callback the returned state equalled the stored
\* oauth_state, the token endpoint answered with success, the user-info fetch
\* succeeded and the nonce of the ID token equalled the stored oauth_nonce;
\* if one of them fails no session is returned and the callback sets no
\* sso_user.
C1_SessionOnlyAfterAllChecks ==
    (trace.op = "require_sso_auth" /\ trace.callback) =>
        /\ trace.returned => AllStepsPassed
        /\ ~AllStepsPassed =>
              /\ ~trace.returned
              /\ UserOf(session_state) \subseteq trace.user_before

\* a callback has returned a session and it is stored as sso_user
C1_Witness ==
    /\ trace.op = "require_sso_auth"
    /\ trace.callback
    /\ trace.returned
    /\ Has(session_state, "sso_user")

\* C2: after any callback has been processed, whatever its outcome, the
\* three pending values are erased from the session state.
C2_PendingErasedAfterCallback ==
    (trace.op = "require_sso_auth" /\ trace.callback) =>
        DOMAIN session_state \cap OAuthKeys = {}

\* C3: is_authenticated on a session whose expires_at has passed makes one
\* refresh request; on provider success the session is kept with expires_at
\* after now, a replaced access credential and the same role and
\* permissions, and the check succeeds; on provider failure sso_user is
\* removed and the check fails.
C3_ExpiredSessionIsRefreshed ==
    (trace.op = "require_sso_auth" /\ trace.checked /\ trace.expired) =>
        /\ trace.refreshes = 1
        /\ trace.refresh_ok =>
              /\ trace.auth = "True"
              /\ Has(session_state, "sso_user")
              /\ \A u \in trace.user_before :
                    /\ session_state["sso_user"].expires_at.t > now
                    /\ session_state["sso_user"].access_token # u.access_token
                    /\ session_state["sso_user"].role = u.role
                    /\ session_state["sso_user"].permissions = u.permissions
        /\ ~trace.refresh_ok =>
              /\ trace.auth = "False"
              /\ ~Has(session_state, "sso_user")

----------------------------------------------------------------------------
(* Claims about the access policy engine *)

DepartmentsOf(rows) == {rows[i].department : i \in 1..Len(rows)}

\* frame is the department aggregate of rows: one row per department, with
\* the number of records of the department and a most frequent seniority
\* level of it, and no column of a person record
IsAggregateOf(frame, rows) ==
    /\ frame.columns = AggColumns
    /\ Len(frame.rows) = Cardinality(DepartmentsOf(rows))
    /\ {frame.rows[i].Department : i \in 1..Len(frame.rows)} = DepartmentsOf(rows)
    /\ \A i \in 1..Len(frame.rows) :
          LET a == frame.rows[i] IN
          /\ DOMAIN a = AggColumns
          /\ a.Team_Size = TeamSize(rows, a.Department)
          /\ \A l \in {rows[j].seniority_level : j \in 1..Len(rows)} :
                CountOf(rows, a.Department, l)
                    <= CountOf(rows, a.Department, a.Common_Seniority)
          /\ CountOf(rows, a.Department, a.Common_Seniority) > 0

C5_AuditorGetsViewerAggregate ==
    (pc = "filtered" /\ user_role = "auditor") =>
        /\ out = filter_data_by_access_level(df, "viewer", user_context)
        /\ Len(out.rows) > 0 => out.columns \cap PeopleColumns = {}

\* the indices of the rows a manager with identifier M may see
VisibleTo(rows, M) ==
    {i \in 1..Len(rows) :
        \/ rows[i].manager = M
        \/ rows[i].uid = M
        \/ \E d \in 1..Len(rows) :
              rows[d].manager = M /\ rows[i].manager = rows[d].uid}

\* row i is three levels below M and not nearer to M than that
ThreeBelow(rows, M, i) ==
    /\ \E d, e \in 1..Len(rows) :
          /\ rows[d].manager = M
          /\ rows[e].manager = rows[d].uid
          /\ rows[i].manager = rows[e].uid
    /\ i \notin VisibleTo(rows, M)

\* s, restricted to the indices of keep, in the order of s
Pick(s, keep) ==
    LET F[k \in 0..Len(s)] ==
            IF k = 0 THEN <<>>
            ELSE IF k \in keep THEN Append(F[k - 1], s[k]) ELSE F[k - 1]
    IN  F[Len(s)]

\* C6: a manager M receives exactly the rows whose manager-identifier is M,
\* or whose identifier is M, or whose manager-identifier is a direct report
\* of M, in the order of the dataset; no row three levels below M is among
\* them.
C6_ManagerTwoLevels ==
    (pc = "filtered" /\ user_role = "manager") =>
        LET M == UserUid(user_context.email) IN
        /\ out.columns = df.columns
        /\ out.rows = Pick(df.rows, VisibleTo(df.rows, M))
        /\ \A i \in 1..Len(df.rows) :
              ThreeBelow(df.rows, M, i) =>
                  \A k \in 1..Len(out.rows) : out.rows[k] # df.rows[i]

\* a dataset with a direct report, an indirect report and a row three levels
\* below the manager: the first two are returned, the third is not
C6_Witness ==
    /\ pc = "filtered"
    /\ user_role = "manager"
    /\ Len(df.rows) = 3
    /\ \E i \in 1..3 : ThreeBelow(df.rows, UserUid(user_context.email), i)
    /\ Len(out.rows) = 2
    /\ \E k \in 1..2 : out.rows[k].manager # UserUid(user_context.email)

\* C7: the policy for role admin (the filter, then the mask) returns the
\* dataset it was given: no row removed, no value changed.
C7_AdminIdentity ==
    (pc = "applied" /\ user_role = "admin") => out = df

\* the policy has been applied for an admin to a dataset whose e-mail
\* addresses the masking of a viewer would change
C7_Witness ==
    /\ pc = "applied"
    /\ user_role = "admin"
    /\ Len(df.rows) >= 2
    /\ out = df
    /\ apply_data_masking(df, "viewer") # df

\* the permissions the table requires for a category
RequiredFor(type) ==
    CASE type = "people_data" -> {"view_all", "view_team"}
      [] type = "org_chart" -> {"view_all", "view_team", "view_reports"}
      [] type = "analytics" -> {"view_all", "view_reports"}
      [] type = "export" -> {"export_data"}
      [] type = "audit_logs" -> {"view_audit", "admin"}
      [] OTHER -> {"view_all"}

\* C9: check_data_access_permission grants a request if and only if the
\* permission set of the principal shares an element with the set the table
\* requires for the category; a category that is not in the table requires
\* {view_all}, so a principal without view_all is denied there.
C9_GrantIffIntersects ==
    (pc = "checked") =>
        /\ granted <=> (user_permissions \cap RequiredFor(data_type) # {})
        /\ (data_type \notin DOMAIN permission_map /\ "view_all" \notin user_permissions)
              => ~granted

\* a principal with some permissions but not view_all is denied a category
\* that is not in the table
C9_Witness ==
    /\ pc = "checked"
    /\ data_type = "settings"
    /\ Cardinality(user_permissions) >= 2
    /\ "view_all" \notin user_permissions
    /\ ~granted

----------------------------------------------------------------------------
(* Claims about exports and the audit trail *)

\* the records the last create_secure_export call appended to the audit log
WrittenByExport == SubSeq(audit_log, Len(export.log_before) + 1, Len(audit_log))

\* C8: an export requested by a principal whose permission set lacks
\* export_data is denied before sanitize_export_data runs: no sanitized data
\* and no download is produced, and no audit record of type DATA_EXPORT is
\* written for that request.
C8_DeniedExportLeavesNothing ==
    (pc = "exported" /\ "export_data" \notin export.permissions) =>
        /\ export.denied
        /\ export.sanitized = {}
        /\ export.download = {}
        /\ \A i \in 1..Len(WrittenByExport) :
              WrittenByExport[i].event_type # "DATA_EXPORT"

\* a principal without export_data asked for a CSV export of a dataset that
\* has rows, and was denied
C8_Witness ==
    /\ pc = "exported"
    /\ "export_data" \notin export.permissions
    /\ export.permissions # {}
    /\ Len(df.rows) > 0
    /\ export.export_format = <<"c", "s", "v">>
    /\ export.denied

\* C10: every submitted login, whether it succeeds or fails, causes exactly
\* one audit record to be written, of type LOGIN_ATTEMPT or SESSION_ACTIVITY.
C10_EveryLoginAttemptAudited ==
    (trace.op = "login_form") =>
        /\ Len(audit_log) = Len(trace.log_before) + 1
        /\ audit_log[Len(audit_log)].event_type
              \in {"LOGIN_ATTEMPT", "SESSION_ACTIVITY"}

----------------------------------------------------------------------------
(* Claims about the audit sink *)

AtLeastWarning == {"WARNING", "ERROR", "CRITICAL"}

\* C11: in every reachable state of the audit log, every LOGIN_ATTEMPT record
\* whose detail has success = false and every DATA_EXPORT record has severity
\* WARNING or higher, whatever operation of the sink the caller used.
C11_ElevatedRecordsAtLeastWarning ==
    \A i \in 1..Len(audit_log) :
        (\/ audit_log[i].event_type = "DATA_EXPORT"
         \/ /\ audit_log[i].event_type = "LOGIN_ATTEMPT"
            /\ ~audit_log[i].details.success)
        => audit_log[i].severity \in AtLeastWarning

\* C14: when the sink cannot persist a record, the call does not raise, and
\* one escalation record of type SECURITY_EVENT at CRITICAL severity is handed
\* to the log after the record that could not be written.
C14_WriteFailureEscalatedOnce ==
    (trace.op = "audit" /\ ~trace.writable) =>
        /\ ~trace.raised
        /\ Cardinality({i \in 2..Len(trace.handed) :
               /\ trace.handed[i].event_type = "SECURITY_EVENT"
               /\ trace.handed[i].severity = "CRITICAL"}) = 1

----------------------------------------------------------------------------
(* Claims about local authentication *)

\* C12: verify_session_token returns no principal for every token whose
\* expiry time is in the past, also when the signature is valid and the
\* subject is a known principal.
C12_ExpiredTokenRejected ==
    (trace.op = "verify_session_token" /\ session_state["auth_token"].exp < now)
        => trace.user = {}

\* an expired token of a known principal, signed with the secret key, was refused
C12_Witness ==
    /\ trace.op = "verify_session_token"
    /\ session_state["auth_token"].exp < now
    /\ session_state["auth_token"].signature = "secret_key"
    /\ session_state["auth_token"].email \in DOMAIN authorized_users
    /\ trace.user = {}

\* what the caller of a submitted login sees: the result of the check, the
\* message shown, and the session state left
LoginOutcome(email, password) ==
    [result |-> check_password(email, password),
     message |-> login_message(email, password),
     ss |-> login_form(session_state, email, password, now)]

\* C13: local authentication gives the same caller-visible outcome for an
\* unknown identifier as for a known identifier with a wrong secret: the
\* result, the error shown and the resulting session state are identical,
\* and a failed attempt leaves the session state as it was.
C13_UnknownAndWrongSecretAlike ==
    /\ \A e1 \in LoginEmails, e2 \in LoginEmails,
          p1 \in LoginPasswords, p2 \in LoginPasswords :
          (/\ e1 \notin DOMAIN authorized_users
           /\ e2 \in DOMAIN authorized_users
           /\ demo_passwords[e2] # p2)
          => LoginOutcome(e1, p1) = LoginOutcome(e2, p2)
    /\ (trace.op = "login_form" /\ ~trace.success) =>
          /\ trace.message = "Invalid credentials"
          /\ session_state = trace.ss_before

\* a login with an unknown identifier was submitted and refused
C13_Witness ==
    /\ trace.op = "login_form"
    /\ trace.email \notin DOMAIN authorized_users
    /\ ~trace.success
    /\ attempts >= 2

----------------------------------------------------------------------------
(* Claims about authorization checks *)

\* C15: every authorization check of the mediator, whether it grants or
\* denies, produces an audit record: after the export gate has answered, the
\* audit log is longer than before, and after require_permission has answered
\* it is not empty.
C15_EveryCheckAudited ==
    /\ (pc = "exported") => Len(audit_log) > Len(export.log_before)
    /\ (pc = "required" /\ trace.outcome # "login_form") => Len(audit_log) > 0

----------------------------------------------------------------------------
(* Claims about roles and permissions *)

\* C17: a principal's permission set is determined by its role alone, under
\* one vocabulary shared by both authenticators: a session that local
\* authentication creates for role R carries the permission set federated
\* authentication gives role R.
C17_PermissionsByRoleAlone ==
    Has(session_state, "user") =>
        session_state["user"].permissions =
            permissions_map[session_state["user"].role]

\* the name is among the provider's roles or groups
Claimed(name) == name \in trace.roles \cup trace.groups

\* C18: federated role mapping follows a fixed precedence over the
\* provider's roles and groups: admin, otherwise manager, otherwise auditor,
\* otherwise viewer; the session's permission set is that of the mapped role,
\* so no claim of the provider adds a permission outside it.
C18_RolePrecedence ==
    (trace.op = "create_user_session") =>
        /\ session_state["sso_user"].role =
              IF Claimed("ldap-analytics-admin") THEN "admin"
              ELSE IF Claimed("ldap-analytics-manager") THEN "manager"
              ELSE IF Claimed("ldap-analytics-auditor") THEN "auditor"
              ELSE "viewer"
        /\ session_state["sso_user"].permissions =
              permissions_map[session_state["sso_user"].role]

\* the provider claimed the admin name among the groups, the manager name
\* among the roles and a claim named like a permission; the session is admin
C18_Witness ==
    /\ trace.op = "create_user_session"
    /\ "ldap-analytics-admin" \in trace.groups
    /\ "ldap-analytics-manager" \in trace.roles
    /\ "export_data" \in trace.roles
    /\ session_state["sso_user"].role = "admin"

----------------------------------------------------------------------------
(* Claims about masking *)

\* the length of the local part of the address handed to mask_email
LocalLen == FirstAt(user_context.email) - 1

\* C19: mask_email, for every address with an '@', keeps the domain
\* unchanged and keeps the length of the local part; of a local part longer
\* than 2 characters it keeps the first and the last character and replaces
\* every character between them with '*'; of a local part of length 1 or 2
\* it replaces every character with '*'.
C19_MaskEmailShape ==
    (pc = "masked_email" /\ FirstAt(user_context.email) # 0) =>
        /\ Len(out) = Len(user_context.email)
        /\ \A i \in (LocalLen + 1)..Len(out) : out[i] = user_context.email[i]
        /\ \A i \in 1..LocalLen :
              out[i] = IF LocalLen > 2 /\ i \in {1, LocalLen}
                       THEN user_context.email[i] ELSE "*"

\* an address with a local part of 3 characters and a domain was masked
C19_Witness ==
    /\ pc = "masked_email"
    /\ LocalLen = 3
    /\ out[1] = "a" /\ out[2] = "*" /\ out[3] = "b"
    /\ Len(out) > 4

\* C20 as stated: mask_email("ab@x.com") yields "a*@x.com" and
\* mask_email("a@x.com") yields "*@x.com".
C20_MaskEmailExamples ==
    (pc = "masked_email") =>
        /\ (user_context.email = <<"a", "b">> \o XCom) => out = <<"a", "*">> \o XCom
        /\ (user_context.email = <<"a">> \o XCom) => out = <<"*">> \o XCom

\* C20 amended: mask_email("ab@x.com") yields "**@x.com" and
\* mask_email("a@x.com") yields "*@x.com".
C20_MaskEmailExamplesFullMask ==
    (pc = "masked_email") =>
        /\ (user_context.email = <<"a", "b">> \o XCom) => out = <<"*", "*">> \o XCom
        /\ (user_context.email = <<"a">> \o XCom) => out = <<"*">> \o XCom

\* "ab@x.com" was masked
C20_Witness ==
    /\ pc = "masked_email"
    /\ user_context.email = <<"a", "b">> \o XCom
    /\ Len(out) = 8

----------------------------------------------------------------------------
(* Claims about the masking of phone numbers and employee identifiers *)

PhonePattern == <<"*", "*", "*", "-", "*", "*", "*", "-">>

\* the last 4 digits of a value (all of them when it has fewer)
LastFour(value) ==
    LET d == SelectSeq(value, LAMBDA c : c \in Digits)
    IN  SubSeq(d, IF Len(d) > 4 THEN Len(d) - 3 ELSE 1, Len(d))

\* C21, as stated: mask_phone turns every non-empty phone value into the
\* fixed placeholder pattern followed by the last 4 digits of the value.
C21_PhoneKeepsLastFour ==
    (pc = "masked_phone" /\ user_context.value # <<>>)
        => out = PhonePattern \o LastFour(user_context.value)

\* C21, amended: a non-empty phone value with at least 10 digits becomes
\* '***-***-' followed by its last 4 digits; a non-empty value with fewer than
\* 10 digits becomes '***-****', which preserves none of its digits.
C21_PhoneKeepsLastFourOfTen ==
    (pc = "masked_phone" /\ user_context.value # <<>>)
        => IF Len(SelectSeq(user_context.value, LAMBDA c : c \in Digits)) >= 10
           THEN /\ Len(out) = 12
                /\ SubSeq(out, 1, 8) = PhonePattern
                /\ SubSeq(out, 9, 12) = LastFour(user_context.value)
           ELSE out = <<"*", "*", "*", "-", "*", "*", "*", "*">>

\* a 10-digit number was masked to its last 4 digits, and a 7-digit one was not
C21_Witness ==
    /\ pc = "masked_phone"
    /\ user_context.value = <<"9", "1", "9", "-", "5", "5", "5", "-", "0", "1", "4", "2">>
    /\ out = <<"*", "*", "*", "-", "*", "*", "*", "-", "0", "1", "4", "2">>

\* C22: mask_employee_id preserves the length of every non-empty identifier;
\* an identifier longer than 3 keeps its first 2 characters and its last one
\* and has '*' everywhere else; an identifier of length 3 or less is all '*'.
C22_EmployeeIdShape ==
    (pc = "masked_id" /\ user_context.value # <<>>)
        => LET id == user_context.value IN
           /\ Len(out) = Len(id)
           /\ \A i \in 1..Len(id) :
                out[i] = IF Len(id) > 3 /\ (i <= 2 \/ i = Len(id))
                         THEN id[i] ELSE "*"

\* an identifier of 5 characters was masked in the middle
C22_Witness ==
    /\ pc = "masked_id"
    /\ user_context.value = <<"E", "7", "7", "E", "7">>
    /\ out = <<"E", "7", "*", "*", "7">>

----------------------------------------------------------------------------
(* Claims about the columns apply_data_masking changes *)

\* the columns of the contact datasets, by category
EmailColumns == {"email"}
PhoneColumns == {"phone"}
IdColumns == {"employee_id"}

\* the value a cell of a masked column must have
MaskedValue(c, value) ==
    IF c \in EmailColumns THEN mask_email(value)
    ELSE IF c \in PhoneColumns THEN mask_phone(value)
    ELSE mask_employee_id(value)

\* the columns whose values the role's masking may change
MaskedFor(role) ==
    IF role = "manager" THEN PhoneColumns
    ELSE IF role \in {"viewer", "auditor"}
    THEN EmailColumns \cup PhoneColumns \cup IdColumns
    ELSE {}

\* C23: apply_data_masking changes the phone columns only for a manager, the
\* e-mail, phone and employee-identifier columns only for a viewer or an
\* auditor, and for every role the result has the rows and the columns of
\* the input.
C23_MaskingFrame ==
    pc = "masked"
        => /\ out.columns = df.columns
           /\ Len(out.rows) = Len(df.rows)
           /\ \A i \in 1..Len(df.rows) :
                /\ DOMAIN out.rows[i] = DOMAIN df.rows[i]
                /\ \A c \in DOMAIN df.rows[i] :
                     out.rows[i][c] =
                         IF c \in MaskedFor(user_role)
                         THEN MaskedValue(c, df.rows[i][c])
                         ELSE df.rows[i][c]

\* a manager's dataset came back with the phone masked and the e-mail and the
\* identifier as they were
C23_Witness ==
    /\ pc = "masked"
    /\ user_role = "manager"
    /\ Len(df.rows) = 2
    /\ df.rows[1].phone = TenDigits
    /\ out.rows[1].phone # df.rows[1].phone
    /\ out.rows[1].email = df.rows[1].email
    /\ out.rows[1].employee_id = LongId

\* the category of a column name: the first category, in the order e-mail,
\* phone, employee identifier, one of whose keywords the name contains in any
\* letter case; "none" when it contains no keyword
CategoryOf(column) ==
    LET holds(kind) ==
            \E keyword \in sensitive_fields[kind] :
                Contains(Lower(Spell[column]), Lower(keyword))
    IN  IF holds("email") THEN "email"
        ELSE IF holds("phone") THEN "phone"
        ELSE IF holds("employee_id") THEN "employee_id"
        ELSE "none"

MaskOf(kind, value) ==
    IF kind = "email" THEN mask_email(value)
    ELSE IF kind = "phone" THEN mask_phone(value)
    ELSE IF kind = "employee_id" THEN mask_employee_id(value)
    ELSE value

\* C24: for every keyword of the e-mail, phone and employee-identifier sets
\* (employeeNumber and workerId among them) a column whose name contains the
\* keyword in any letter case is masked for the roles viewer and auditor.
C24_KeywordColumnsMasked ==
    (pc = "masked" /\ user_role \in {"viewer", "auditor"})
        => \A c \in out.columns :
              out.rows[1][c] = MaskOf(CategoryOf(c), df.rows[1][c])

----------------------------------------------------------------------------
(* Claims about the export path *)

InternalWords ==
    {<<"p", "a", "s", "s", "w", "o", "r", "d">>, <<"h", "a", "s", "h">>,
     <<"s", "e", "s", "s", "i", "o", "n">>, <<"t", "o", "k", "e", "n">>,
     <<"s", "e", "c", "r", "e", "t">>}

NamesInternal(c) == \E w \in InternalWords : Contains(Lower(Spell[c]), w)

\* the sanitized dataset has no internal column and holds the role's masking
\* of the remaining columns of the input
SanitizedColumnsAndMasking ==
    /\ \A c \in out.columns : ~NamesInternal(c)
    /\ out.columns = {c \in df.columns : ~NamesInternal(c)}
    /\ Len(out.rows) = Len(df.rows)
    /\ \A i \in 1..Len(df.rows) :
         /\ DOMAIN out.rows[i] = out.columns
         /\ \A c \in out.columns :
              out.rows[i][c] = MaskCell(c, df.rows[i][c], user_role)

\* the provenance of the export is attached: the exporting role and the fixed
\* classification label (the export time is the clock's reading)
ProvenanceAttached ==
    /\ out.attrs # {}
    /\ \A a \in out.attrs :
         /\ a.exported_by = user_role
         /\ a.data_classification = "CONFIDENTIAL - Red Hat Internal"

\* C25: for every dataset, role and export format, sanitize_export_data
\* returns a dataset without any column named after password, hash, session,
\* token or secret in any letter case, with the role's masking applied to the
\* remaining columns, and with the export provenance attached.
C25_SanitizedExportHasProvenance ==
    pc = "sanitized" => (SanitizedColumnsAndMasking /\ ProvenanceAttached)

----------------------------------------------------------------------------
(* Claims about the principal context of audit records *)

\* the identifier and the role of the principal of a session: the subject of
\* the local token with the role of its 'user' entry, or the federated user
PrincipalOf(ss) ==
    IF Has(ss, "sso_user")
    THEN [identifier |-> ss["sso_user"].username, role |-> ss["sso_user"].role]
    ELSE [identifier |-> ss["auth_token"].email, role |-> ss["user"].role]

NamesPrincipal(record, ss) ==
    /\ record.user_context.user_email = PrincipalOf(ss).identifier
    /\ record.user_context.user_role = PrincipalOf(ss).role

\* C26: every audit record written while a principal is authenticated carries
\* that principal's identifier and role, in both authentication modes; a
\* record of a federated session names the federated principal and not
\* 'anonymous' with the role 'none'.
C26_RecordsNameThePrincipal ==
    pc = "exported"
        => \A i \in 1..Len(WrittenByExport) :
              NamesPrincipal(WrittenByExport[i], export.ss_before)

----------------------------------------------------------------------------
(* Claims about the audit of data access *)

\* the records a step appends to the audit log
Appended == SubSeq(audit_log', Len(audit_log) + 1, Len(audit_log'))

\* a run of main that reached load_secure_data and drew the dashboard from
\* the people data it returned
LoadReturned == trace'.op = "main" /\ trace'.page = "dashboard"

\* C27: every time load_secure_data returns people data to a caller a
\* DATA_ACCESS record is written for that access, also when the same role and
\* principal ask again within the 30 minutes of the cache.
C27_EveryLoadAudited ==
    [][LoadReturned
         => \E i \in 1..Len(Appended) : Appended[i].event_type = "DATA_ACCESS"]_vars

----------------------------------------------------------------------------
(* Claims about the order of the transforms in a pipeline run *)

\* the cells of a frame that differ from the same cells of another
Differs(a, b) ==
    \E i \in 1..Len(a.rows) : \E c \in DOMAIN a.rows[i] :
        i > Len(b.rows) \/ c \notin DOMAIN b.rows[i] \/ a.rows[i][c] # b.rows[i][c]

----------------------------------------------------------------------------
(* Claims about successive authorization requests *)

\* the callback of the last run carried the state of a request that was
\* followed by a newer one
CarriedOlderState ==
    /\ trace.op = "require_sso_auth"
    /\ trace.callback
    /\ \E n \in 1..(issued - 1) : trace.cb_state = StateTok(n)

\* C29: a new authorization request replaces the pending flow: the session
\* holds the state, nonce and code_verifier of the latest request only, and a
\* callback that carries the state of an earlier request is rejected at the
\* state check, whatever the provider answers.
C29_NewRequestReplacesPending ==
    /\ Has(session_state, "oauth_state")
         => /\ session_state["oauth_state"] = StateTok(issued)
            /\ Get(session_state, "oauth_nonce") = NonceTok(issued)
            /\ Get(session_state, "oauth_code_verifier") = VerifierTok(issued)
    /\ CarriedOlderState
         => /\ trace.cb_state # trace.stored_state
            /\ ~trace.returned
            /\ ~trace.raised
            /\ UserOf(session_state) \subseteq trace.user_before

\* after two requests the callback of the first came back, with a provider
\* that answered every call, and was turned away
C29_Witness ==
    /\ issued = 2
    /\ CarriedOlderState
    /\ trace.cb_state = StateTok(1)
    /\ trace.stored_state = StateTok(2)
    /\ trace.token_ok /\ trace.info_ok
    /\ trace.id_nonce = NonceTok(2)
    /\ ~trace.returned

----------------------------------------------------------------------------
(* Claims about the local session *)

\* the last run ended in a logout or found is_authenticated false: the login
\* form is shown, or the run ended in st.rerun() without a refresh
LoggedOutOrRefused ==
    /\ trace.op = "main"
    /\ \/ trace.page = "login"
       \/ trace.page = "rerun" /\ trace.click \in {"none", "logout"}

\* C30: in local mode the session holds a 'user' entry only together with an
\* 'auth_token', and that entry is the credential store's entry of the
\* token's subject; after a logout or a failed is_authenticated neither
\* entry is there.
C30_UserOnlyWithToken ==
    /\ Has(session_state, "user")
         => /\ Has(session_state, "auth_token")
            /\ session_state["auth_token"].email \in DOMAIN authorized_users
            /\ session_state["user"]
                   = authorized_users[session_state["auth_token"].email]
    /\ LoggedOutOrRefused
         => /\ ~Has(session_state, "user")
            /\ ~Has(session_state, "auth_token")

\* a session that had been opened was found expired by is_authenticated
C30_Witness ==
    /\ LoggedOutOrRefused
    /\ trace.page = "rerun"
    /\ trace.click = "none"
    /\ now = SessionTimeout
    /\ ~Has(session_state, "user")

=============================================================================
